---- MODULE Spec2Model ----
(***************************************************************************)
(* Model of src/index.ts: the DataProcessor class (a container wrapping a  *)
(* number[]), its chainable transformations in immediate and delayed       *)
(* ("Async") form, and the two factory functions.                          *)
(*                                                                         *)
(* Arrays are objects on a heap: `heap` maps an address to the array's     *)
(* contents, and every reference (this.data, the caller's initialData, an  *)
(* array returned by getResult, a parameter captured by a pending async    *)
(* call) is an address.  Arrays no reference reaches are dropped.          *)
(* Numbers are modelled as integers (no NaN, infinities or negative zero). *)
(***************************************************************************)
EXTENDS Integers, Sequences, FiniteSets, TLC

VARIABLES
    heap,       \* address -> contents of the live array at that address
    data,       \* container -> address of its `data` field (created containers only)
    inputs,     \* addresses of the arrays the caller built and passes as initialData
    returned,   \* the arrays handed back by getResult / getResultAsync that the caller holds
    timers,     \* the runtime's timers: per delay the list of pending setTimeout timers,
                \* oldest first, each with the time left until it expires and the async
                \* call suspended on it; the order of the lists; the list being run
    last,       \* the most recent completed transformation: operation, argument, before, after
    applied,    \* container -> number of transformations that have taken effect on it
    issued,     \* container -> number of transformation calls made on it
    shadow,     \* container -> contents the immediate counterparts give, applied in call order
    expired,    \* container -> contents the transformations whose timers have expired
                \* give, applied in order of expiry
    overlap,    \* container -> a call was made on it while an earlier async call was pending
    origin,     \* container -> how it was created and what initialData held at the call
    done,       \* container -> number of suspending transformations on it that have returned
    budget,     \* container -> number of transformation calls the caller makes on it
    overrun     \* container -> a transformation of it resumed on a timer that was overdue

vars == <<heap, data, inputs, returned, timers, last,
          applied, issued, shadow, expired, overlap, origin, done, budget,
          overrun>>

----------------------------------------------------------------------------
(* Bounds of the model and the inputs the operations are called with.      *)

MaxLen == 3          \* longest initialData array drawn at Init
MaxOps == 3          \* transformation calls made on a container used alone
MaxChain == 2        \* transformation calls made on a container that shares a run
                     \* with aliasing arrays, pending timers or a second container
MaxHeld == 2         \* result arrays the caller asks for in one run

Cont == {"p1", "p2"}                 \* container instances
Vals == {1, 2, 3}                    \* elements of the arrays drawn at Init
AddArgs == {5, 10}
MulArgs == {2, 3}
Thresholds == {2, 7}
CallerVals == {99}                   \* what the caller writes into an array it holds

\* Default delays of the suspending variants (delayMs parameters).
DefaultDelayMs == 100
DefaultCreateDelayMs == 200
Delays == {50, DefaultDelayMs}
CreateDelays == {DefaultCreateDelayMs}
BusyMs == {70}                       \* how long the caller's own code runs between calls

----------------------------------------------------------------------------
(* Arrays: the pure array functions the methods call.                      *)

Range(f) == {f[x] : x \in DOMAIN f}

\* All sequences over S of length at most n.
SeqsUpTo(S, n) == UNION {[1..k -> S] : k \in 0..n}

\* [...arr]: a new array with the same elements.
Spread(arr) == [i \in 1..Len(arr) |-> arr[i]]

\* arr.map(item => item + value)
MapAdd(arr, value) == [i \in 1..Len(arr) |-> arr[i] + value]

\* arr.map(item => item * value)
MapMultiply(arr, value) == [i \in 1..Len(arr) |-> arr[i] * value]

\* arr.filter(item => item > threshold): visit the elements in index order and
\* append to the result those the predicate accepts.
RECURSIVE FilterFrom(_, _, _, _)
FilterFrom(arr, threshold, i, acc) ==
    IF i > Len(arr) THEN acc
    ELSE FilterFrom(arr, threshold, i + 1,
                    IF arr[i] > threshold THEN Append(acc, arr[i]) ELSE acc)

\* Mutant: arr.filter(item => item >= threshold)
FilterGreaterOrEqual(arr, threshold) == SelectSeq(arr, LAMBDA item : item >= threshold)

FilterGreater(arr, threshold) == FilterFrom(arr, threshold, 1, <<>>)

\* Mutant: (a, b) => a - b (the ascending flag is ignored).
ComparatorAscendingOnly(ascending, a, b) == a - b

\* The comparator of sort: (a, b) => ascending ? a - b : b - a
Comparator(ascending, a, b) == IF ascending THEN a - b ELSE b - a

\* Array.prototype.sort(comparefn) is a stable sort: insert each element after
\* the elements that do not compare greater than it.
RECURSIVE InsertAt(_, _, _, _)
InsertAt(sorted, x, ascending, i) ==
    IF i > Len(sorted) THEN Append(sorted, x)
    ELSE IF Comparator(ascending, sorted[i], x) > 0
         THEN SubSeq(sorted, 1, i - 1) \o <<x>> \o SubSeq(sorted, i, Len(sorted))
         ELSE InsertAt(sorted, x, ascending, i + 1)

RECURSIVE SortFrom(_, _, _, _)
SortFrom(arr, ascending, i, acc) ==
    IF i > Len(arr) THEN acc
    ELSE SortFrom(arr, ascending, i + 1, InsertAt(acc, arr[i], ascending, 1))

SortArray(arr, ascending) == SortFrom(arr, ascending, 1, <<>>)

----------------------------------------------------------------------------
(* The heap.                                                               *)

\* An address names the code that allocated the array (the caller's literals
\* "in", the methods of a container, the result getters "out") and counts the
\* live arrays of that allocator.  A newly allocated array gets the lowest
\* count not in use.
Fresh(h, site) ==
    LET used == {a[2] : a \in {x \in DOMAIN h : x[1] = site}}
        n == CHOOSE k \in 1..(Cardinality(used) + 1) :
                 /\ k \notin used
                 /\ \A j \in 1..(k - 1) : j \in used
    IN <<site, n>>

NoRef == <<"none", 0>>
Input(k) == <<"in", k>>

\* h with a new array holding `contents` at address a.
Store(h, a, contents) == [x \in DOMAIN h \cup {a} |-> IF x = a THEN contents ELSE h[x]]

EmptyHeap == [x \in {} |-> <<>>]

\* The addresses some reference reaches.
Roots(d, ins, rets, tms) ==
    Range(d) \cup ins \cup {r.ref : r \in rets} \cup {t.ref : t \in tms}

\* h without the arrays nothing refers to any more.
Collect(h, roots) == [x \in DOMAIN h \cap roots |-> h[x]]

Created == DOMAIN data
Contents(c) == heap[data[c]]

\* The pending timers, and those whose suspended call is a call on container c.
Waiting == UNION {Range(timers.lists[d]) : d \in DOMAIN timers.lists}
Pending(c) == {t \in Waiting : t.c = c}

NoCall == [op |-> "none", c |-> "none", arg |-> 0, asc |-> TRUE,
           before |-> <<>>, after |-> <<>>, ret |-> "none", early |-> 0,
           late |-> FALSE, follows |-> "none"]

\* The record of a completed transformation on c: what it was called with, the
\* contents before and after, the container it returned (or resolved to), how
\* many pending transformations of c had less time left than the one that
\* resumed (early),
\* whether that timer had expired before the runtime turned to it (late), and
\* whether it directly follows a sort of the same container (follows).
Call(op, c, arg, asc, before, after, ret, early, late) ==
    [op |-> op, c |-> c, arg |-> arg, asc |-> asc, before |-> before, after |-> after,
     ret |-> ret, early |-> early, late |-> late,
     follows |-> IF last.op = "sort" /\ last.c = c
                 THEN (IF last.asc THEN "sort(true)" ELSE "sort(false)")
                 ELSE "other"]

----------------------------------------------------------------------------
(* What each method body does to the heap: the resulting heap and the      *)
(* address the method stores in this.data (or returns).                    *)

\* Mutant: this.data = initialData (the caller's array is stored, not a copy).
ConstructorNoCopy(h, c, initialData) == [h |-> h, ref |-> initialData]

\* constructor(initialData): this.data = [...initialData]
Constructor(h, c, initialData) ==
    [h |-> Store(h, Fresh(h, c), Spread(h[initialData])), ref |-> Fresh(h, c)]

\* add: this.data = this.data.map(item => item + value)
addBody(h, c, ref, value) ==
    [h |-> Store(h, Fresh(h, c), MapAdd(h[ref], value)), ref |-> Fresh(h, c)]

\* Mutant: after the await, this.data = this.data.map(item => item * value)
addAsyncBodyMultiplies(h, c, ref, value) ==
    [h |-> Store(h, Fresh(h, c), MapMultiply(h[ref], value)), ref |-> Fresh(h, c)]

\* addAsync, after the await: this.data = this.data.map(item => item + value)
addAsyncBody(h, c, ref, value) ==
    [h |-> Store(h, Fresh(h, c), MapAdd(h[ref], value)), ref |-> Fresh(h, c)]

\* multiply: this.data = this.data.map(item => item * value)
multiplyBody(h, c, ref, value) ==
    [h |-> Store(h, Fresh(h, c), MapMultiply(h[ref], value)), ref |-> Fresh(h, c)]

\* multiplyAsync, after the await
multiplyAsyncBody(h, c, ref, value) ==
    [h |-> Store(h, Fresh(h, c), MapMultiply(h[ref], value)), ref |-> Fresh(h, c)]

\* filterGreaterThan: this.data = this.data.filter(item => item > threshold)
filterGreaterThanBody(h, c, ref, threshold) ==
    [h |-> Store(h, Fresh(h, c), FilterGreater(h[ref], threshold)), ref |-> Fresh(h, c)]

\* filterGreaterThanAsync, after the await
filterGreaterThanAsyncBody(h, c, ref, threshold) ==
    [h |-> Store(h, Fresh(h, c), FilterGreater(h[ref], threshold)), ref |-> Fresh(h, c)]

\* sort: this.data.sort(...) reorders the stored array itself.
sortBody(h, c, ref, ascending) ==
    [h |-> [h EXCEPT ![ref] = SortArray(h[ref], ascending)], ref |-> ref]

\* Mutant: return this.data (the stored array is handed out, not a copy).
getResultBodyNoCopy(h, ref) == [h |-> h, ref |-> ref]

\* getResult: return [...this.data]
getResultBody(h, ref) ==
    [h |-> Store(h, Fresh(h, "out"), Spread(h[ref])), ref |-> Fresh(h, "out")]

\* getResultAsync, after the await: return [...this.data]
getResultAsyncBody(h, ref) ==
    [h |-> Store(h, Fresh(h, "out"), Spread(h[ref])), ref |-> Fresh(h, "out")]

\* Mutant: data is a static field, shared by every instance.
AssignDataShared(d, c, ref) == [x \in DOMAIN d \cup {c} |-> ref]

\* this.data = ...: the field of this instance alone is assigned.
AssignData(d, c, ref) == [x \in DOMAIN d \cup {c} |-> IF x = c THEN ref ELSE d[x]]

\* A heap of its own for an array with contents arr, and the contents of the
\* array a method body leaves in this.data.
Alone(arr) == Store(EmptyHeap, Input(1), arr)
Left(r) == r.h[r.ref]

\* What the immediate counterpart of a transformation makes of arr.
Counterpart(op, arr, arg) ==
    CASE op \in {"add", "addAsync"} -> Left(addBody(Alone(arr), "p1", Input(1), arg))
      [] op \in {"multiply", "multiplyAsync"} -> Left(multiplyBody(Alone(arr), "p1", Input(1), arg))
      [] op \in {"filterGreaterThan", "filterGreaterThanAsync"} ->
             Left(filterGreaterThanBody(Alone(arr), "p1", Input(1), arg))

----------------------------------------------------------------------------
(* Timers: await new Promise(resolve => setTimeout(resolve, delayMs)).     *)
(* The runtime (Node.js) keeps one list of timers per delay, in the order  *)
(* they were set, and the lists in a queue ordered by the expiry of their  *)
(* oldest timer and then by age.  When it turns to the timers it takes the *)
(* first list of the queue and runs, oldest first, every timer of the list *)
(* that had expired at that moment, then the next list, until no list is   *)
(* left whose oldest timer had expired.  After each timer it runs the      *)
(* continuation of the call suspended on it.                               *)

TransformKinds == {"addAsync", "multiplyAsync", "filterGreaterThanAsync"}
AllDelays == Delays \cup CreateDelays

ResultsAsked ==
    Cardinality(returned) + Cardinality({t \in Waiting : t.kind = "getResultAsync"})

\* What a call on container c finds: the number of transformations that have
\* taken effect, the contents, and what the immediate calls would have made.
CallState(c) == [ver |-> applied[c], contents |-> heap[data[c]], sync |-> shadow[c]]

\* The timer an async call suspends on.  n numbers the call among the calls
\* of its kind of operation on c; ref is the array reference the suspended
\* call holds in a parameter (createProcessorAsync's initialData); at is what
\* the call found (for createProcessorAsync, what initialData held).
Timer(kind, c, value, delayMs, ref) ==
    [kind |-> kind, c |-> c, value |-> value, delay |-> delayMs,
     left |-> delayMs, ref |-> ref,
     n |-> IF kind \in TransformKinds THEN issued[c] + 1
           ELSE IF kind = "getResultAsync" THEN ResultsAsked + 1 ELSE 0,
     at |-> IF kind = "createProcessorAsync"
            THEN [ver |-> 0, contents |-> heap[ref], sync |-> heap[ref]]
            ELSE CallState(c)]

NoTimers ==
    [lists |-> [d \in AllDelays |-> <<>>], order |-> <<>>, list |-> 0, lag |-> 0,
     on |-> FALSE]

Without(seq, x) == SelectSeq(seq, LAMBDA y : y # x)
Position(seq, x) == CHOOSE i \in 1..Len(seq) : seq[i] = x

\* The timer had expired when the runtime turned to the timers, lag
\* milliseconds ago.
Overdue(t, lag) == t.left + lag <= 0

\* The lists the runtime may take next: while it is running timers, those
\* whose oldest timer had expired when it began; otherwise every list.
Ready(tm) ==
    {d \in Range(tm.order) : ~tm.on \/ Overdue(Head(tm.lists[d]), tm.lag)}

\* The list whose oldest timer fires next: the list being run, as long as its
\* oldest timer had expired; otherwise the first list of the queue.
NextList(tm) ==
    IF tm.on /\ tm.list # 0 THEN tm.list
    ELSE CHOOSE d \in Ready(tm) :
             \A e \in Ready(tm) :
                 \/ Head(tm.lists[d]).left < Head(tm.lists[e]).left
                 \/ /\ Head(tm.lists[d]).left = Head(tm.lists[e]).left
                    /\ Position(tm.order, d) <= Position(tm.order, e)

Due(t) ==
    /\ Waiting # {}
    /\ t = Head(timers.lists[NextList(timers)])

\* The timers of a list once ms milliseconds have passed.
Elapse(list, ms) == [i \in 1..Len(list) |-> [list[i] EXCEPT !.left = @ - ms]]

\* How long an idle runtime sleeps until timer t fires: until it expires.
Sleep(t) == IF timers.on \/ t.left <= 0 THEN 0 ELSE t.left

\* The transformations whose timers expire while ms milliseconds pass, and
\* what they make of the contents ex (container -> contents) when applied in
\* order of expiry (timers that expire together: in the order of the queue).
Expiring(ms) == {t \in Waiting : t.kind \in TransformKinds /\ t.left > 0 /\ t.left <= ms}

ExpiresBefore(t, u) ==
    \/ t.left < u.left
    \/ /\ t.left = u.left
       /\ \/ Position(timers.order, t.delay) < Position(timers.order, u.delay)
          \/ t.delay = u.delay /\ t.n <= u.n

RECURSIVE InExpiryOrder(_, _)
InExpiryOrder(ex, S) ==
    IF S = {} THEN ex
    ELSE LET t == CHOOSE x \in S : \A y \in S : ExpiresBefore(x, y) IN
         InExpiryOrder([ex EXCEPT ![t.c] = Counterpart(t.kind, @, t.value)], S \ {t})

\* The timer fires and the call suspended on it resumes.  An idle runtime
\* sleeps until the timer expires.  A list that is left empty is deleted, and
\* a list whose oldest timer had not expired goes to the back of the queue.
Run(t) ==
    /\ Due(t)
    /\ LET sleep == Sleep(t)
           lists == [d \in DOMAIN timers.lists |->
                       Elapse(IF d = t.delay THEN Tail(timers.lists[d])
                              ELSE timers.lists[d], sleep)]
           rest == lists[t.delay]
           more == rest # <<>> /\ Overdue(Head(rest), timers.lag)
           order == IF more THEN timers.order
                    ELSE IF rest = <<>> THEN Without(timers.order, t.delay)
                    ELSE Append(Without(timers.order, t.delay), t.delay)
           on == more \/ \E d \in Range(order) : Overdue(Head(lists[d]), timers.lag)
       IN timers' = [lists |-> lists, order |-> order,
                     list |-> IF more THEN t.delay ELSE 0,
                     lag |-> IF on THEN timers.lag ELSE 0, on |-> on]

Fire(t) ==
    /\ Run(t)
    /\ expired' = InExpiryOrder(expired, Expiring(Sleep(t)))

\* The call suspends on a new timer, at the end of the list of its delay (a
\* new list at the back of the queue when there is none).
Suspend(t) ==
    timers' = [timers EXCEPT
                 !.lists = [@ EXCEPT ![t.delay] = Append(@, t)],
                 !.order = IF timers.lists[t.delay] = <<>> THEN Append(@, t.delay) ELSE @]

----------------------------------------------------------------------------
(* Book-keeping shared by the actions.                                     *)

\* A transformation takes effect on container c: r is the heap and the address
\* now in c's data field, tms the timers still pending afterwards.
Effect(c, op, arg, asc, r, tms) ==
    /\ data' = AssignData(data, c, r.ref)
    /\ heap' = Collect(r.h, Roots(data', inputs, returned, tms))
    /\ last' = Call(op, c, arg, asc, heap[data[c]], r.h[r.ref], c,
                    Cardinality({w \in tms : /\ w.c = c /\ w.kind \in TransformKinds
                                              /\ \E u \in Waiting \ tms : w.left < u.left}),
                    \E u \in Waiting \ tms : u.left <= 0)
    /\ overrun' = [overrun EXCEPT ![c] = @ \/ \E u \in Waiting \ tms : u.left <= 0]
    /\ applied' = [applied EXCEPT ![c] = @ + 1]

\* A transformation call is made on container c; sh is what its immediate
\* counterpart makes of the contents the calls so far give in call order, ex
\* the contents the transformations that have expired give once the call has
\* returned (an immediate call has taken effect by then).
Issue(c, sh, ex) ==
    /\ issued' = [issued EXCEPT ![c] = @ + 1]
    /\ shadow' = [shadow EXCEPT ![c] = sh]
    /\ expired' = [expired EXCEPT ![c] = ex]
    /\ overlap' = [overlap EXCEPT ![c] = @ \/ Pending(c) # {}]

\* What the caller holds after a result-extraction call on c returned address
\* ref: the container's contents and version at the call and at the return,
\* what the immediate calls would have returned at the call (sync), the
\* contents of the returned array then, whether the caller had by then
\* changed an array returned earlier for c, and whether it has changed this one.
Held(c, kind, ref, h, at) ==
    [c |-> c, kind |-> kind, ref |-> ref, ver |-> applied[c], verAtCall |-> at.ver,
     atReturn |-> h[ref], atCall |-> at.contents, sync |-> at.sync,
     contents |-> heap[data[c]],
     afterMutation |-> \E q \in returned : q.c = c /\ q.dirty, dirty |-> FALSE]

----------------------------------------------------------------------------
(* Immediate operations.                                                   *)

\* createProcessor(initialData): return new DataProcessor(initialData)
createProcessor(c, a) ==
    /\ c \notin Created
    /\ Pending(c) = {}
    /\ a \in inputs
    /\ LET r == Constructor(heap, c, a) IN
         /\ data' = AssignData(data, c, r.ref)
         /\ heap' = Collect(r.h, Roots(data', inputs, returned, Waiting))
         /\ shadow' = [shadow EXCEPT ![c] = r.h[r.ref]]
         /\ expired' = [expired EXCEPT ![c] = r.h[r.ref]]
         /\ origin' = [origin EXCEPT ![c] = [via |-> "createProcessor", atCall |-> heap[a]]]
    /\ UNCHANGED <<inputs, returned, timers, last, applied, issued, overlap, done, budget, overrun>>

add(c, value) ==
    /\ c \in Created
    /\ issued[c] < budget[c]
    /\ Effect(c, "add", value, TRUE, addBody(heap, c, data[c], value), Waiting)
    /\ Issue(c, Left(addBody(Alone(shadow[c]), "p1", Input(1), value)),
             Left(addBody(Alone(expired[c]), "p1", Input(1), value)))
    /\ UNCHANGED <<inputs, returned, timers, origin, done, budget>>

multiply(c, value) ==
    /\ c \in Created
    /\ issued[c] < budget[c]
    /\ Effect(c, "multiply", value, TRUE, multiplyBody(heap, c, data[c], value), Waiting)
    /\ Issue(c, Left(multiplyBody(Alone(shadow[c]), "p1", Input(1), value)),
             Left(multiplyBody(Alone(expired[c]), "p1", Input(1), value)))
    /\ UNCHANGED <<inputs, returned, timers, origin, done, budget>>

filterGreaterThan(c, threshold) ==
    /\ c \in Created
    /\ issued[c] < budget[c]
    /\ Effect(c, "filterGreaterThan", threshold, TRUE,
              filterGreaterThanBody(heap, c, data[c], threshold), Waiting)
    /\ Issue(c, Left(filterGreaterThanBody(Alone(shadow[c]), "p1", Input(1), threshold)),
             Left(filterGreaterThanBody(Alone(expired[c]), "p1", Input(1), threshold)))
    /\ UNCHANGED <<inputs, returned, timers, origin, done, budget>>

sort(c, ascending) ==
    /\ c \in Created
    /\ issued[c] < budget[c]
    /\ Effect(c, "sort", 0, ascending, sortBody(heap, c, data[c], ascending), Waiting)
    /\ Issue(c, Left(sortBody(Alone(shadow[c]), "p1", Input(1), ascending)),
             Left(sortBody(Alone(expired[c]), "p1", Input(1), ascending)))
    /\ UNCHANGED <<inputs, returned, timers, origin, done, budget>>

getResult(c) ==
    /\ c \in Created
    /\ ResultsAsked < MaxHeld
    /\ LET r == getResultBody(heap, data[c]) IN
         /\ returned' = returned \cup
                {Held(c, "getResult", r.ref, r.h, CallState(c))}
         /\ heap' = Collect(r.h, Roots(data, inputs, returned', Waiting))
    /\ UNCHANGED <<data, inputs, timers, last, applied, issued, shadow, expired,
                   overlap, origin, done, budget, overrun>>

----------------------------------------------------------------------------
(* Suspending operations: the call (up to the await) and the resumption    *)
(* (from the await to the return), which runs when the call's timer fires. *)

\* Mutant: the mutation is also made before the await.
addAsyncEager(c, value, delayMs) ==
    /\ c \in Created
    /\ issued[c] < budget[c]
    /\ Suspend(Timer("addAsync", c, value, delayMs, NoRef))
    /\ Effect(c, "addAsync", value, TRUE, addAsyncBody(heap, c, data[c], value),
              Waiting)
    /\ Issue(c, Left(addBody(Alone(shadow[c]), "p1", Input(1), value)), expired[c])
    /\ UNCHANGED <<inputs, returned, origin, done, budget>>

addAsync(c, value, delayMs) ==
    /\ c \in Created
    /\ issued[c] < budget[c]
    /\ Suspend(Timer("addAsync", c, value, delayMs, NoRef))
    /\ Issue(c, Left(addBody(Alone(shadow[c]), "p1", Input(1), value)), expired[c])
    /\ UNCHANGED <<heap, data, inputs, returned, last, applied, origin, done, budget, overrun>>

\* Mutant: the array is read before the await (const d = this.data) and
\* this.data = d.map(item => item + value) goes by that read.
addAsyncResumeStale(t) ==
    /\ t.kind = "addAsync"
    /\ Fire(t)
    /\ Effect(t.c, "addAsync", t.value, TRUE,
              [h |-> Store(heap, Fresh(heap, t.c), MapAdd(t.at.contents, t.value)),
               ref |-> Fresh(heap, t.c)], Waiting \ {t})
    /\ done' = [done EXCEPT ![t.c] = @ + 1]
    /\ UNCHANGED <<inputs, returned, issued, shadow, overlap, origin, budget>>

addAsyncResume(t) ==
    /\ t.kind = "addAsync"
    /\ Fire(t)
    /\ Effect(t.c, "addAsync", t.value, TRUE,
              addAsyncBody(heap, t.c, data[t.c], t.value), Waiting \ {t})
    /\ done' = [done EXCEPT ![t.c] = @ + 1]
    /\ UNCHANGED <<inputs, returned, issued, shadow, overlap, origin, budget>>

multiplyAsync(c, value, delayMs) ==
    /\ c \in Created
    /\ issued[c] < budget[c]
    /\ Suspend(Timer("multiplyAsync", c, value, delayMs, NoRef))
    /\ Issue(c, Left(multiplyBody(Alone(shadow[c]), "p1", Input(1), value)), expired[c])
    /\ UNCHANGED <<heap, data, inputs, returned, last, applied, origin, done, budget, overrun>>

multiplyAsyncResume(t) ==
    /\ t.kind = "multiplyAsync"
    /\ Fire(t)
    /\ Effect(t.c, "multiplyAsync", t.value, TRUE,
              multiplyAsyncBody(heap, t.c, data[t.c], t.value), Waiting \ {t})
    /\ done' = [done EXCEPT ![t.c] = @ + 1]
    /\ UNCHANGED <<inputs, returned, issued, shadow, overlap, origin, budget>>

filterGreaterThanAsync(c, threshold, delayMs) ==
    /\ c \in Created
    /\ issued[c] < budget[c]
    /\ Suspend(Timer("filterGreaterThanAsync", c, threshold, delayMs, NoRef))
    /\ Issue(c, Left(filterGreaterThanBody(Alone(shadow[c]), "p1", Input(1), threshold)), expired[c])
    /\ UNCHANGED <<heap, data, inputs, returned, last, applied, origin, done, budget, overrun>>

filterGreaterThanAsyncResume(t) ==
    /\ t.kind = "filterGreaterThanAsync"
    /\ Fire(t)
    /\ Effect(t.c, "filterGreaterThanAsync", t.value, TRUE,
              filterGreaterThanAsyncBody(heap, t.c, data[t.c], t.value), Waiting \ {t})
    /\ done' = [done EXCEPT ![t.c] = @ + 1]
    /\ UNCHANGED <<inputs, returned, issued, shadow, overlap, origin, budget>>

getResultAsync(c, delayMs) ==
    /\ c \in Created
    /\ ResultsAsked < MaxHeld
    /\ Suspend(Timer("getResultAsync", c, 0, delayMs, NoRef))
    /\ overlap' = [overlap EXCEPT ![c] = @ \/ Pending(c) # {}]
    /\ UNCHANGED <<heap, data, inputs, returned, last, applied, issued, shadow, expired,
                   origin, done, budget, overrun>>

\* Mutant: the copy is taken before the await and returned after it.
getResultAsyncResumeAtCall(t) ==
    /\ t.kind = "getResultAsync"
    /\ LET a == Fresh(heap, "out")
           r == [h |-> Store(heap, a, t.at.contents), ref |-> a] IN
         /\ Fire(t)
         /\ returned' = returned \cup
                {Held(t.c, "getResultAsync", r.ref, r.h, t.at)}
         /\ heap' = Collect(r.h, Roots(data, inputs, returned', Waiting \ {t}))
    /\ UNCHANGED <<data, inputs, last, applied, issued, shadow, overlap, origin,
                   done, budget, overrun>>

getResultAsyncResume(t) ==
    /\ t.kind = "getResultAsync"
    /\ LET r == getResultAsyncBody(heap, data[t.c]) IN
         /\ Fire(t)
         /\ returned' = returned \cup
                {Held(t.c, "getResultAsync", r.ref, r.h, t.at)}
         /\ heap' = Collect(r.h, Roots(data, inputs, returned', Waiting \ {t}))
    /\ UNCHANGED <<data, inputs, last, applied, issued, shadow, overlap, origin,
                   done, budget, overrun>>

\* createProcessorAsync(initialData, delayMs): the call keeps the reference
\* initialData across the await and constructs the container afterwards.
createProcessorAsync(c, a, delayMs) ==
    /\ c \notin Created
    /\ Pending(c) = {}
    /\ a \in inputs
    /\ Suspend(Timer("createProcessorAsync", c, 0, delayMs, a))
    /\ UNCHANGED <<heap, data, inputs, returned, last, applied, issued, shadow, expired,
                   overlap, origin, done, budget, overrun>>

createProcessorAsyncResume(t) ==
    /\ t.kind = "createProcessorAsync"
    /\ Run(t)
    /\ LET r == Constructor(heap, t.c, t.ref) IN
         /\ data' = AssignData(data, t.c, r.ref)
         /\ heap' = Collect(r.h, Roots(data', inputs, returned, Waiting \ {t}))
         /\ shadow' = [shadow EXCEPT ![t.c] = r.h[r.ref]]
         /\ expired' = [InExpiryOrder(expired, Expiring(Sleep(t))) EXCEPT ![t.c] = r.h[r.ref]]
         /\ origin' = [origin EXCEPT
                         ![t.c] = [via |-> "createProcessorAsync", atCall |-> t.at.contents]]
    /\ UNCHANGED <<inputs, returned, last, applied, issued, overlap, done, budget, overrun>>

----------------------------------------------------------------------------
(* The caller's own code: it may change any array it holds a reference to  *)
(* (a[0] = v, or a.push(v) on an empty array).                             *)

Mutated(arr, v) == IF Len(arr) = 0 THEN <<v>> ELSE [arr EXCEPT ![1] = v]

CallerHolds == inputs \cup {r.ref : r \in returned}

CallerMutate(a, v) ==
    /\ a \in CallerHolds
    /\ heap[a] # Mutated(heap[a], v)
    /\ heap' = [heap EXCEPT ![a] = Mutated(heap[a], v)]
    /\ returned' = {IF r.ref = a THEN [r EXCEPT !.dirty = TRUE] ELSE r : r \in returned}
    /\ UNCHANGED <<data, inputs, timers, last, applied, issued, shadow, expired,
                   overlap, origin, done, budget, overrun>>

\* The caller's own code runs for ms milliseconds (or the caller waits that
\* long for something else) before its next call: no timer fires meanwhile.
CallerBusy(ms) ==
    /\ \E t \in Waiting : t.left > 0
    /\ timers' = [timers EXCEPT
                    !.lists = [d \in DOMAIN timers.lists |-> Elapse(timers.lists[d], ms)],
                    !.lag = IF timers.on THEN @ + ms ELSE 0]
    /\ expired' = InExpiryOrder(expired, Expiring(ms))
    /\ UNCHANGED <<heap, data, inputs, returned, last, applied, issued, shadow,
                   overlap, origin, done, budget, overrun>>

----------------------------------------------------------------------------
(* Initial states.                                                         *)

NoOrigin == [via |-> "none", atCall |-> <<>>]

\* The caller has built the arrays ins (k -> contents of its k-th array) and
\* has created no container yet.
InitEmpty(ins) ==
    /\ heap = [a \in {Input(k) : k \in DOMAIN ins} |-> ins[a[2]]]
    /\ inputs = {Input(k) : k \in DOMAIN ins}
    /\ data = <<>>
    /\ shadow = [c \in Cont |-> <<>>]
    /\ expired = [c \in Cont |-> <<>>]
    /\ origin = [c \in Cont |-> NoOrigin]

\* The caller has built the arrays ins (container -> contents) and has
\* created each container with createProcessor from its array.
InitCreated(ins) ==
    /\ heap = [a \in {Input(c) : c \in DOMAIN ins} \cup {<<c, 1>> : c \in DOMAIN ins}
                 |-> ins[a[IF a[1] = "in" THEN 2 ELSE 1]]]
    /\ inputs = {Input(c) : c \in DOMAIN ins}
    /\ data = [c \in DOMAIN ins |-> <<c, 1>>]
    /\ shadow = [c \in Cont |-> IF c \in DOMAIN ins THEN ins[c] ELSE <<>>]
    /\ expired = [c \in Cont |-> IF c \in DOMAIN ins THEN ins[c] ELSE <<>>]
    /\ origin = [c \in Cont |-> IF c \in DOMAIN ins
                                 THEN [via |-> "createProcessor", atCall |-> ins[c]]
                                 ELSE NoOrigin]

InitRest ==
    /\ returned = {}
    /\ timers = NoTimers
    /\ last = NoCall
    /\ applied = [c \in Cont |-> 0]
    /\ issued = [c \in Cont |-> 0]
    /\ overlap = [c \in Cont |-> FALSE]
    /\ done = [c \in Cont |-> 0]
    /\ overrun = [c \in Cont |-> FALSE]

----------------------------------------------------------------------------
(* Spec: the immediate API on two containers built from one caller array.  *)
(* The caller transforms the first and only creates and reads the second.  *)

StorageInputs == SeqsUpTo({1, 2}, 2)

Init ==
    /\ \E s \in StorageInputs : InitEmpty(<<s>>)
    /\ budget = [c \in Cont |-> IF c = "p1" THEN MaxChain ELSE 0]
    /\ InitRest

Next ==
    \/ \E c \in Cont, a \in inputs : createProcessor(c, a)
    \/ \E c \in Cont : add(c, 5)
    \/ \E c \in Cont : multiply(c, 2)
    \/ \E c \in Cont : filterGreaterThan(c, 6)
    \/ \E c \in Cont, asc \in BOOLEAN : sort(c, asc)
    \/ \E c \in Cont : getResult(c)
    \/ \E a \in CallerHolds, v \in CallerVals : CallerMutate(a, v)

Spec == Init /\ [][Next]_vars

----------------------------------------------------------------------------
(* SpecFun: every transformation, on one container, from every array.      *)

InitFun ==
    /\ \E s \in SeqsUpTo(Vals, MaxLen) : InitCreated([c \in {"p1"} |-> s])
    /\ budget = [c \in Cont |-> IF c = "p1" THEN MaxOps ELSE 0]
    /\ InitRest

NextFun ==
    \/ \E v \in AddArgs : add("p1", v)
    \/ \E v \in MulArgs : multiply("p1", v)
    \/ \E t \in Thresholds : filterGreaterThan("p1", t)
    \/ \E t \in Thresholds : filterGreaterThanAsync("p1", t, DefaultDelayMs)
    \/ \E t \in Waiting : filterGreaterThanAsyncResume(t)
    \/ \E asc \in BOOLEAN : sort("p1", asc)

SpecFun == InitFun /\ [][NextFun]_vars

----------------------------------------------------------------------------
(* SpecAsync: one container and any calls of the suspending operations on  *)
(* it, overlapping or not and at any time, one of them a read of the       *)
(* result, with sort called in between.                                    *)

AsyncInputs == {<<1, 2, 3>>}

InitAsync ==
    /\ \E s \in AsyncInputs : InitCreated([c \in {"p1"} |-> s])
    /\ budget = [c \in Cont |-> IF c = "p1" THEN MaxChain ELSE 0]
    /\ InitRest

NextAsync ==
    \/ \E d \in Delays : addAsync("p1", 5, d)
    \/ \E d \in Delays : multiplyAsync("p1", 2, d)
    \/ \E d \in Delays : filterGreaterThanAsync("p1", 7, d)
    \/ ResultsAsked = 0 /\ getResultAsync("p1", DefaultDelayMs)
    \/ \E asc \in BOOLEAN : sort("p1", asc)
    \/ \E ms \in BusyMs : CallerBusy(ms)
    \/ \E t \in Waiting : addAsyncResume(t)
    \/ \E t \in Waiting : multiplyAsyncResume(t)
    \/ \E t \in Waiting : filterGreaterThanAsyncResume(t)
    \/ \E t \in Waiting : getResultAsyncResume(t)

SpecAsync == InitAsync /\ [][NextAsync]_vars

----------------------------------------------------------------------------
(* SpecDelayed: a container created after a delay, while the caller goes   *)
(* on using its array, and a chain of suspending transformations on the    *)
(* container, with a read of the result at any point.  The event loop      *)
(* fires every timer that is set.                                          *)

\* No transformation of c is pending: the next call of the chain can be made.
Chained(c) == {t \in Pending(c) : t.kind \in TransformKinds} = {}

InitDelayed ==
    /\ InitEmpty(<<(<<1, 2, 3>>)>>)
    /\ budget = [c \in Cont |-> IF c = "p1" THEN MaxChain ELSE 0]
    /\ InitRest

Resume ==
    \E t \in Waiting :
        \/ addAsyncResume(t)
        \/ multiplyAsyncResume(t)
        \/ filterGreaterThanAsyncResume(t)
        \/ getResultAsyncResume(t)
        \/ createProcessorAsyncResume(t)

NextDelayed ==
    \/ \E d \in CreateDelays : createProcessorAsync("p1", Input(1), d)
    \/ \E v \in CallerVals : CallerMutate(Input(1), v)
    \/ Chained("p1") /\ addAsync("p1", 5, DefaultDelayMs)
    \/ Chained("p1") /\ multiplyAsync("p1", 2, DefaultDelayMs)
    \/ Chained("p1") /\ filterGreaterThanAsync("p1", 7, DefaultDelayMs)
    \/ ResultsAsked = 0 /\ getResultAsync("p1", DefaultDelayMs)
    \/ \E ms \in BusyMs : CallerBusy(ms)
    \/ Resume

SpecDelayed == InitDelayed /\ [][NextDelayed]_vars /\ WF_vars(Resume)

----------------------------------------------------------------------------
(* SpecParallel: two containers, each running a chain of suspending calls  *)
(* of its own that ends with a read of the result: a call is made on a     *)
(* container once the previous call on it has resolved.                    *)

\* The values each container's chain adds and multiplies by.
ChainAdd(c) == IF c = "p1" THEN 10 ELSE 5
ChainMul(c) == IF c = "p1" THEN 2 ELSE 3

\* The chain of c can go on: its previous call has resolved and it has not
\* asked for the result, which ends it.
ChainOpen(c) ==
    /\ Pending(c) = {}
    /\ \A r \in returned : r.c # c

InitParallel ==
    /\ InitCreated([c \in Cont |-> IF c = "p1" THEN <<1, 2, 3>> ELSE <<4, 5, 6>>])
    /\ budget = [c \in Cont |-> MaxChain]
    /\ InitRest

NextParallel ==
    \/ \E c \in Cont, d \in Delays : ChainOpen(c) /\ addAsync(c, ChainAdd(c), d)
    \/ \E c \in Cont, d \in Delays : ChainOpen(c) /\ multiplyAsync(c, ChainMul(c), d)
    \/ \E c \in Cont : ChainOpen(c) /\ getResultAsync(c, DefaultDelayMs)
    \/ \E ms \in BusyMs : CallerBusy(ms)
    \/ \E t \in Waiting : addAsyncResume(t)
    \/ \E t \in Waiting : multiplyAsyncResume(t)
    \/ \E t \in Waiting : getResultAsyncResume(t)

SpecParallel == InitParallel /\ [][NextParallel]_vars

----------------------------------------------------------------------------
(* Properties.                                                             *)

Reverse(arr) == [i \in 1..Len(arr) |-> arr[Len(arr) + 1 - i]]

\* How often v occurs in arr.
Count(arr, v) == Cardinality({i \in 1..Len(arr) : arr[i] = v})

\* The k-th smallest member of a set of numbers.
Kth(S, k) == CHOOSE j \in S : Cardinality({i \in S : i < j}) = k - 1

ResultRefs == {r.ref : r \in returned}

\* C4. Storage isolation: a container's stored array is never the array the
\* caller passed as initialData, never an array getResult returned and never
\* the stored array of another container, also after sort has reordered the
\* stored array in place; so whatever the caller writes into its own arrays,
\* each container holds exactly what its own transformations made of the
\* initial contents.
C4_StorageIsolation ==
    \A c \in Created :
        /\ data[c] \notin inputs
        /\ data[c] \notin ResultRefs
        /\ \A c2 \in Created \ {c} : data[c2] # data[c]
        /\ Contents(c) = shadow[c]

\* C4 witness: both containers exist, the first has just been sorted in
\* place, the caller holds a result and has since written into its original
\* array and into the result.
C4_Witness ==
    /\ Created = Cont
    /\ last.op = "sort" /\ last.before # last.after
    /\ heap[Input(1)] # origin["p1"].atCall
    /\ \E r \in returned : r.dirty /\ r.c = "p1" /\ heap[r.ref] # Contents("p1")
    /\ Contents("p2") = origin["p2"].atCall

\* C5. getResult does not mutate the container: it returns the contents the
\* container has at the call, the container still has them afterwards (until
\* its next transformation) whatever the caller does to returned arrays, and
\* two getResult calls with no transformation in between return equal
\* sequences, also when the caller changed the first result before the second
\* call.
C5_GetResultLeavesContainer ==
    \A r \in returned :
        r.kind = "getResult" =>
            /\ r.atReturn = r.atCall
            /\ r.ver = applied[r.c] => Contents(r.c) = r.atReturn
            /\ \A q \in returned :
                   (q.kind = "getResult" /\ q.c = r.c /\ q.ver = r.ver)
                       => q.atReturn = r.atReturn

\* C5 witness: after a transformation, two results of the same container with
\* nothing in between, the second asked for after the caller changed the first.
C5_Witness ==
    \E r, q \in returned :
        /\ r.kind = "getResult" /\ q.kind = "getResult"
        /\ r.c = q.c /\ r.ver = q.ver /\ r.ver > 0
        /\ r.dirty /\ ~q.dirty /\ q.afterMutation
        /\ heap[r.ref] # heap[q.ref]
        /\ heap[q.ref] = Contents(q.c)

\* C7. filterGreaterThan(t) and filterGreaterThanAsync(t) leave exactly the
\* elements greater than t, in their original order: with P the positions of
\* the elements > t before the call, the result has as many elements as P and
\* its k-th element is the element at the k-th position of P.
C7_FilterKeepsGreaterInOrder ==
    last.op \in {"filterGreaterThan", "filterGreaterThanAsync"} =>
        LET P == {j \in 1..Len(last.before) : last.before[j] > last.arg} IN
            /\ Len(last.after) = Cardinality(P)
            /\ Len(last.after) <= Len(last.before)
            /\ \A k \in 1..Len(last.after) :
                   /\ last.after[k] > last.arg
                   /\ last.after[k] = last.before[Kth(P, k)]
            /\ Contents(last.c) = last.after

\* C7 witness: a filter that dropped an element equal to the threshold and
\* kept two elements that are not in ascending order.
C7_Witness ==
    /\ last.op = "filterGreaterThan"
    /\ \E i \in 1..Len(last.before) : last.before[i] = last.arg
    /\ Len(last.after) = 2 /\ last.after[1] > last.after[2]

IsOrdered(arr, ascending) ==
    \A i \in 1..(Len(arr) - 1) :
        IF ascending THEN arr[i] <= arr[i + 1] ELSE arr[i] >= arr[i + 1]

\* C8. sort(ascending) leaves a permutation of the contents (every value
\* occurs as often as before) that is non-decreasing when ascending and
\* non-increasing otherwise; and sort(false) directly after sort(true) leaves
\* the reverse of what sort(true) left.
C8_SortPermutesAndOrders ==
    last.op = "sort" =>
        /\ Len(last.after) = Len(last.before)
        /\ \A v \in Range(last.before) \cup Range(last.after) :
               Count(last.after, v) = Count(last.before, v)
        /\ IsOrdered(last.after, last.asc)
        /\ (~last.asc /\ last.follows = "sort(true)") => last.after = Reverse(last.before)
        /\ Contents(last.c) = last.after

\* C8 witness: sort(false) directly after sort(true), on three different values.
C8_Witness ==
    /\ last.op = "sort" /\ ~last.asc /\ last.follows = "sort(true)"
    /\ Len(last.after) = 3
    /\ last.after[1] > last.after[2] /\ last.after[2] > last.after[3]

PendingTransforms(c) == {t \in Pending(c) : t.kind \in TransformKinds}

\* C1. A chain of suspending calls, each made after the previous one has
\* resolved, gives what the chain of immediate counterparts gives: once the
\* calls made have resolved the container holds what add, multiply,
\* filterGreaterThan (and sort) make of the initial contents in the same order,
\* and getResultAsync resolves to what getResult returns at that point of the
\* immediate chain, whatever the delays.
C1_ChainedAsyncEqualsImmediate ==
    \A c \in Created :
        ~overlap[c] =>
            /\ Pending(c) = {} => Contents(c) = shadow[c]
            /\ \A r \in returned :
                   (r.c = c /\ r.kind = "getResultAsync") => r.atReturn = r.sync

\* C1 witness: [1,2,3], addAsync(5) then multiplyAsync(2) then getResultAsync,
\* each after the previous resolved, gives [12,14,16].
C1_Witness ==
    /\ ~overlap["p1"] /\ Pending("p1") = {}
    /\ origin["p1"].atCall = <<1, 2, 3>>
    /\ last.op = "multiplyAsync" /\ last.arg = 2 /\ last.before = <<6, 7, 8>>
    /\ \E r \in returned : r.kind = "getResultAsync" /\ heap[r.ref] = <<12, 14, 16>>

\* C2. Two containers each running its own chain of suspending calls: in
\* every interleaving of the resumptions each container holds, once its calls
\* have resolved, what its chain gives when run alone, a step of the other
\* chain does not change its contents while its own call is pending, and its
\* getResultAsync resolves to what its own chain gives.
C2_ParallelChainsIndependent ==
    \A c \in Created :
        /\ Pending(c) = {} => Contents(c) = shadow[c]
        /\ \A t \in Pending(c) : Contents(c) = t.at.contents
        /\ \A r \in returned : r.c = c => (r.atReturn = r.sync /\ heap[r.ref] = r.sync)

\* C2 witness: [1,2,3] after addAsync(10); multiplyAsync(2) and [4,5,6] after
\* addAsync(5); multiplyAsync(3), with both results [22,24,26] and [27,30,33].
C2_Witness ==
    /\ Contents("p1") = <<22, 24, 26>> /\ Contents("p2") = <<27, 30, 33>>
    /\ \E r \in returned : r.c = "p1" /\ heap[r.ref] = <<22, 24, 26>>
    /\ \E r \in returned : r.c = "p2" /\ heap[r.ref] = <<27, 30, 33>>

\* C3. The container createProcessorAsync resolves to holds the values
\* initialData had when createProcessorAsync was called, also when the caller
\* changes its array while the delay is pending.
C3_DelayedCreateCopiesAtCall ==
    \A c \in Created :
        (origin[c].via = "createProcessorAsync" /\ applied[c] = 0)
            => Contents(c) = origin[c].atCall

\* C9. Suspending transformations called on one container while earlier ones
\* are pending: every call takes effect exactly once (calls made = effects +
\* pending), each effect is its operation applied to the contents the
\* container has when its timer fires, and once the calls have resolved the
\* container holds what the transformations give when applied in order of
\* timer expiry.
C9_OverlappingCallsInExpiryOrder ==
    /\ \A c \in Created :
           /\ applied[c] + Cardinality(PendingTransforms(c)) = issued[c]
           /\ PendingTransforms(c) = {} => Contents(c) = expired[c]
    /\ last.op \in TransformKinds =>
           last.after = Counterpart(last.op, last.before, last.arg)
    /\ last.op # "none" => Contents(last.c) = last.after

\* C9, amended. Suspending transformations called on one container while
\* earlier ones are pending: every call takes effect exactly once (calls made
\* = effects + pending), each effect is its operation applied to the contents
\* the container has when its timer fires, so the effects are in the order in
\* which the timers fire; a timer that fires before it is overdue is one with
\* the least time left; and once the calls have resolved the container holds
\* what the transformations give in order of timer expiry, unless the caller
\* kept the runtime from the timers until one was overdue.
C9_OverlappingCallsInFiringOrder ==
    /\ \A c \in Created :
           /\ applied[c] + Cardinality(PendingTransforms(c)) = issued[c]
           /\ (PendingTransforms(c) = {} /\ ~overrun[c]) => Contents(c) = expired[c]
    /\ last.op \in TransformKinds =>
           /\ last.after = Counterpart(last.op, last.before, last.arg)
           /\ last.early > 0 => last.late
    /\ last.op # "none" => Contents(last.c) = last.after

\* C9 witness: on [1,2,3], addAsync(5) and then multiplyAsync(2) called while
\* it is pending, with no time passing in between; the multiplication took
\* effect first: [7,9,11], where the order of the calls gives [12,14,16].
C9_Witness ==
    /\ overlap["p1"] /\ Pending("p1") = {}
    /\ issued["p1"] = 2
    /\ last.op = "addAsync" /\ last.before = <<2, 4, 6>> /\ ~last.late
    /\ Contents("p1") = <<7, 9, 11>>
    /\ shadow["p1"] = <<12, 14, 16>>

\* C10. getResultAsync resolves to a copy of the contents the container has
\* when the call resumes: transformations that took effect while it was
\* pending are in it, later ones never change it, and the call leaves the
\* container's contents as they are.
C10_ResultAsyncIsCopyAtResumption ==
    \A r \in returned :
        r.kind = "getResultAsync" =>
            /\ r.atReturn = r.contents
            /\ heap[r.ref] = r.contents
            /\ r.ref # data[r.c]
            /\ r.ver = applied[r.c] => Contents(r.c) = r.contents

\* C10 witness: a result asked for before a transformation took effect and
\* delivered after it, different from the contents at the call, and not
\* changed by a transformation that took effect after the delivery.
C10_Witness ==
    \E r \in returned :
        /\ r.kind = "getResultAsync"
        /\ r.verAtCall < r.ver /\ r.ver < applied[r.c]
        /\ r.atReturn # r.atCall
        /\ heap[r.ref] = r.atReturn
        /\ heap[r.ref] # Contents(r.c)

AsyncKinds == TransformKinds \cup {"getResultAsync", "createProcessorAsync"}

\* A call of suspending operation k is suspended on its timer.
Suspended(k) == \E t \in Waiting : t.kind = k

\* C6. Under fair firing of timers, whenever calls of a suspending operation
\* (addAsync, multiplyAsync, filterGreaterThanAsync, getResultAsync,
\* createProcessorAsync) are suspended, a state follows in which all of them
\* have left their timers and completed; and a suspending
\* transformation makes its mutation exactly once, at the resumption and not
\* at the call (calls made = effects + pending, effects = calls returned),
\* and resolves to the container it was called on.
C6_SuspendedCallsComplete ==
    /\ \A k \in AsyncKinds : Suspended(k) ~> ~Suspended(k)
    /\ [](\A c \in Created :
              /\ applied[c] + Cardinality(PendingTransforms(c)) = issued[c]
              /\ applied[c] = done[c])
    /\ [](last.op \in TransformKinds => last.ret = last.c)

\* C6 witness: a container created by createProcessorAsync on which two
\* suspending transformations and a getResultAsync have completed, with no
\* timer left.
C6_Witness ==
    /\ origin["p1"].via = "createProcessorAsync"
    /\ done["p1"] >= 2
    /\ \E r \in returned : r.kind = "getResultAsync" /\ r.ver >= 2
    /\ Waiting = {}

====
